---- MODULE Spec2Model ----
(***************************************************************************)
(* msftool (src/main.c): the MSF archive packer and unpacker.              *)
(*                                                                         *)
(* Byte strings (paths, names, table bytes) are sequences of byte values.  *)
(* 32-bit and file-offset quantities are pairs <<hi, lo>> of 16-bit halves *)
(* (value = hi * 65536 + lo), so that uint32_t keeps its real width.       *)
(* File and stream contents are run lists <<byte, count>>, count a pair,   *)
(* so that a multi-gigabyte file is a value the model can hold; the byte   *)
(* -1 stands for an indeterminate byte (stale or uninitialised memory).    *)
(***************************************************************************)
EXTENDS Integers, Sequences, FiniteSets, TLC

VARIABLES
  src,        \* the source directory tree handed to pack
  ndebug,     \* TRUE when the running binary was built with NDEBUG
  archive,    \* contents of the msf file
  dirs,       \* directories that exist on the unpack side
  files,      \* regular files that exist on the unpack side
  pc,         \* position of the program
  plan,       \* the invocations still to come, as the commands given
  cmd,        \* "pack", "unpack" or "usage": what this invocation does
  ret,        \* the local `ret` of msf_pack / msf_unpack
  exitcode,   \* status the last invocation exited with
  stack,      \* msf_walk activation records, innermost last
  fcount,     \* msf_walk's fcount
  ent,        \* the entry table
  datastart,  \* msf_pack's datastart
  curofs,     \* msf_pack's curofs
  idx,        \* loop index i
  buflen,     \* capacity of the staging buffer
  bufnull,    \* TRUE while buf == NULL
  num_files,  \* msf.num_files
  fpos,       \* read position of the archive stream during unpack
  obs,        \* observations of the current invocation; obs.fault records
              \* that a call failed which the file system as modelled allowed
  log         \* one summary per finished invocation

vars == <<src, ndebug, archive, dirs, files, pc, plan, cmd, ret, exitcode,
          stack, fcount, ent, datastart, curofs, idx, buflen, bufnull,
          num_files, fpos, obs, log>>

----------------------------------------------------------------------------
(* Bounds of the model. *)

MaxEntries == 3

----------------------------------------------------------------------------
(* Wide integers. *)

BigOf(n) == <<n \div 65536, n % 65536>>

BAdd(a, b) ==
  LET lo == a[2] + b[2]
  IN  <<a[1] + b[1] + (lo \div 65536), lo % 65536>>

BLt(a, b) == a[1] < b[1] \/ (a[1] = b[1] /\ a[2] < b[2])

BLe(a, b) == ~BLt(b, a)

\* a - b, for b <= a
BSub(a, b) ==
  IF a[2] >= b[2] THEN <<a[1] - b[1], a[2] - b[2]>>
  ELSE <<a[1] - b[1] - 1, a[2] + 65536 - b[2]>>

BMin(a, b) == IF BLt(a, b) THEN a ELSE b

BZero == <<0, 0>>

\* conversion to uint32_t
Trunc32(a) == <<a[1] % 65536, a[2]>>

\* uint32_t addition
Add32(a, b) == Trunc32(BAdd(a, b))

\* the number of a small wide integer
Small(a) == a[1] * 65536 + a[2]

----------------------------------------------------------------------------
(* Contents: run lists. *)

RECURSIVE RLen(_)
RLen(r) == IF r = <<>> THEN BZero ELSE BAdd(r[1][2], RLen(Tail(r)))

RCat(a, b) ==
  IF a = <<>> THEN b
  ELSE IF b = <<>> THEN a
  ELSE IF a[Len(a)][1] = b[1][1]
       THEN SubSeq(a, 1, Len(a) - 1)
            \o <<<<b[1][1], BAdd(a[Len(a)][2], b[1][2])>>>>
            \o Tail(b)
       ELSE a \o b

RECURSIVE RTake(_, _)
RTake(r, n) ==
  IF r = <<>> \/ n = BZero THEN <<>>
  ELSE IF BLe(r[1][2], n)
       THEN <<r[1]>> \o RTake(Tail(r), BSub(n, r[1][2]))
       ELSE <<<<r[1][1], n>>>>

RECURSIVE RDrop(_, _)
RDrop(r, n) ==
  IF r = <<>> \/ n = BZero THEN r
  ELSE IF BLe(r[1][2], n)
       THEN RDrop(Tail(r), BSub(n, r[1][2]))
       ELSE <<<<r[1][1], BSub(r[1][2], n)>>>> \o Tail(r)

RECURSIVE RFromBytes(_)
RFromBytes(s) ==
  IF s = <<>> THEN <<>>
  ELSE IF Len(s) = 1 THEN <<<<s[1], <<0, 1>>>>>>
  ELSE RCat(RFromBytes(SubSeq(s, 1, Len(s) \div 2)),
            RFromBytes(SubSeq(s, Len(s) \div 2 + 1, Len(s))))

\* the bytes of a short run list
RECURSIVE RBytes(_)
RBytes(r) ==
  IF r = <<>> THEN <<>>
  ELSE [k \in 1..Small(r[1][2]) |-> r[1][1]] \o RBytes(Tail(r))

\* n bytes of unknown value
Stale(n) == IF n = BZero THEN <<>> ELSE <<<<-1, n>>>>

----------------------------------------------------------------------------
(* Strings. *)

Slash == 47
Backslash == 92
Dot == 46

MSF_MAX_NAMELEN == 255

MSF_MAGIC == <<0, 0, 3, 231, 0, 0, 0, 2>>

\* snprintf(path, sizeof(path), "%s/%s", a, b) with char path[MSF_MAX_NAMELEN * 2 + 1]
JoinPath(a, b) ==
  LET s == a \o <<Slash>> \o b
  IN  SubSeq(s, 1, IF Len(s) < MSF_MAX_NAMELEN * 2 THEN Len(s) ELSE MSF_MAX_NAMELEN * 2)

HasSlash(s) == \E k \in 1..Len(s) : s[k] = Slash

IsPrefix(p, s) == Len(p) <= Len(s) /\ SubSeq(s, 1, Len(p)) = p

\* the C string held in a zero-initialised char array: up to the first NUL
CStr(s) ==
  IF \E k \in 1..Len(s) : s[k] = 0
  THEN SubSeq(s, 1, (CHOOSE k \in 1..Len(s) : s[k] = 0 /\ \A j \in 1..(k - 1) : s[j] # 0) - 1)
  ELSE s

Rep(c, n) == [k \in 1..n |-> c]

----------------------------------------------------------------------------
(* The source side of the file system: a tree is a set of nodes, each with *)
(* its path relative to the packed directory.                              *)

Reg(name, data) == [name |-> name, kind |-> "reg", data |-> data]
Dir(name) == [name |-> name, kind |-> "dir", data |-> <<>>]
Other(name) == [name |-> name, kind |-> "other", data |-> <<>>]

\* the directory argument of pack, and the directory arguments of unpack
SrcDir == <<114>>
DstShort == <<100>>
DstLong == Rep(100, 150) \o <<Slash>> \o Rep(100, 149)
DstDirs == {DstShort, DstLong}

LongDir == Rep(120, 200)

TreeEmpty == {}
TreeOne == { Reg(<<97>>, RFromBytes(<<1>>)) }
TreeDot == { Reg(<<Dot, 104>>, RFromBytes(<<7>>)) }
TreeBasic ==
  { Reg(<<97>>, RFromBytes(<<1, 2>>)), Dir(<<115>>),
    Reg(<<115, Slash, 98>>, RFromBytes(<<3>>)), Reg(<<99>>, RFromBytes(<<4, 4>>)) }
TreeHidden ==
  { Reg(<<Dot, 105>>, RFromBytes(<<7>>)), Reg(<<97>>, RFromBytes(<<1>>)),
    Dir(<<Dot, 103>>), Reg(<<Dot, 103, Slash, 98>>, RFromBytes(<<8>>)) }
TreeZero ==
  { Reg(<<97>>, <<>>), Reg(<<98>>, RFromBytes(<<5>>)), Other(<<112>>) }
TreeLong ==
  { Dir(LongDir), Reg(LongDir \o <<Slash>> \o Rep(121, 99), RFromBytes(<<6>>)),
    Reg(<<97>>, RFromBytes(<<1>>)) }
TreeMax ==
  { Dir(LongDir), Reg(LongDir \o <<Slash>> \o Rep(121, 54), RFromBytes(<<6, 7>>)) }
\* two sparse files of 3 GiB each, and a small one
TreeBig ==
  { Reg(<<97>>, <<<<0, <<49152, 0>>>>>>), Reg(<<98>>, <<<<1, <<49152, 0>>>>>>),
    Reg(<<99>>, RFromBytes(<<2>>)) }
\* a file whose name holds a backslash, beside a file named like its first part
TreeBackslash ==
  { Reg(<<97, Backslash, 98>>, RFromBytes(<<1>>)), Reg(<<97>>, RFromBytes(<<2>>)) }
\* one file of 2^32 - 2^20 + 5 bytes
TreeNearFull ==
  { Reg(<<97>>, <<<<0, <<65520, 5>>>>>>) }
\* one file of 2^32 + 3 bytes
TreeOver ==
  { Reg(<<97>>, <<<<9, <<0, 3>>>>, <<0, <<65536, 0>>>>>>) }

Trees == {TreeEmpty, TreeOne, TreeDot, TreeBasic, TreeHidden, TreeZero, TreeLong, TreeMax,
          TreeBig, TreeBackslash, TreeNearFull, TreeOver}

FullPath(n) == SrcDir \o <<Slash>> \o n.name

\* the node a path names, as a set of zero or one nodes
Lookup(tree, path) ==
  IF path = SrcDir THEN {Dir(<<>>)}
  ELSE {n \in tree : path = FullPath(n)}

\* the names readdir yields for an opened directory
Listing(tree, dirpath) ==
  { SubSeq(FullPath(n), Len(dirpath) + 2, Len(FullPath(n))) :
      n \in { m \in tree :
                /\ IsPrefix(dirpath \o <<Slash>>, FullPath(m))
                /\ ~HasSlash(SubSeq(FullPath(m), Len(dirpath) + 2, Len(FullPath(m)))) } }

----------------------------------------------------------------------------
(* Wire format. *)

\* sizeof(struct msf_header)
HeaderSize == 12

\* write32be: the four bytes of a uint32_t, most significant first
BE32(v) == <<v[1] \div 256, v[1] % 256, v[2] \div 256, v[2] % 256>>

\* read32be of four bytes
FromBE32(b) == <<b[1] * 256 + b[2], b[3] * 256 + b[4]>>

\* conversion of a size_t to the uint8_t namelen field
NameLen8(n) == n % 256

\* the entry msf_walk builds for a regular file found at `path`
WalkEntry(path, baselen, size) ==
  LET nl == NameLen8(Len(path) - baselen)
  IN  [ofs |-> BZero, len |-> Trunc32(size), namelen |-> nl,
       name |-> SubSeq(path, baselen + 1, baselen + nl)]

\* the table bytes of one entry
EntryBytes(e) ==
  BE32(e.ofs) \o BE32(e.len) \o <<e.namelen>> \o SubSeq(e.name, 1, e.namelen)

\* a scanner that forgets the name-length byte of each entry
TableShare_NoLengthByte(e) == BigOf(4 * 2 + e.namelen)

\* datastart += sizeof(uint32_t) * 2 + 1 + namelen
TableShare(e) == BigOf(4 * 2 + 1 + e.namelen)

\* curofs += ent[i].len
NextOfs(cur, len) == Add32(cur, len)

\* ent[i].len > buflen
NeedGrow(len, cap) == BLt(cap, len)

\* buflen = ent[i].len + 1024 * 1024
GrowTo(len) == Add32(len, BigOf(1024 * 1024))

----------------------------------------------------------------------------
(* The unpack side of the file system, keyed by path strings relative to   *)
(* the working directory, which exists.                                    *)

IsSep(c) == c = Slash \/ c = Backslash

\* the directory part of a path: everything before its last '/'
Parent(p) ==
  IF HasSlash(p)
  THEN SubSeq(p, 1, (CHOOSE k \in 1..Len(p) :
                       p[k] = Slash /\ \A j \in (k + 1)..Len(p) : p[j] # Slash) - 1)
  ELSE <<>>

DirExists(p, ds) == p = <<>> \/ p \in ds

\* mkdir(p, mode) >= 0
MkdirOk(p, ds, fs) ==
  /\ p # <<>>
  /\ p \notin ds
  /\ \A f \in fs : f.path # p
  /\ DirExists(Parent(p), ds)

\* mkpath's loop over the separators at positions seps, in increasing order
RECURSIVE MkPathLoop(_, _, _, _, _)
MkPathLoop(path, seps, ds, fs, r) ==
  IF seps = {} THEN [ret |-> r, dirs |-> ds]
  ELSE LET k == CHOOSE x \in seps : \A y \in seps : x <= y
           tmp == SubSeq(path, 1, k - 1)
           ok == MkdirOk(tmp, ds, fs)
       IN  MkPathLoop(path, seps \ {k},
                      IF ok THEN ds \cup {tmp} ELSE ds, fs,
                      IF ok THEN 0 ELSE r)

\* mkpath(path, mode): its return value and the directories afterwards
MkPath(path, ds, fs) ==
  MkPathLoop(path, {k \in 1..Len(path) : IsSep(path[k])}, ds, fs, -1)

\* fopen(path, "wb") can succeed
CanCreate(path, ds) ==
  /\ path # <<>>
  /\ path[Len(path)] # Slash
  /\ path \notin ds
  /\ DirExists(Parent(path), ds)

WriteFile(fs, path, data) ==
  {f \in fs : f.path # path} \cup {[path |-> path, data |-> data]}

----------------------------------------------------------------------------
(* Archives an unpack may be handed before any pack has run. *)

Entry(ofs, len, name) == BE32(BigOf(ofs)) \o BE32(BigOf(len)) \o <<Len(name)>> \o name

ArcEmpty == <<>>
ArcShort == SubSeq(MSF_MAGIC, 1, 7)
ArcMagicOnly == MSF_MAGIC
ArcBadMagic ==
  <<0, 0, 3, 231, 0, 0, 0, 3>> \o BE32(BigOf(1)) \o Entry(22, 1, <<97>>) \o <<9>>
ArcTwo ==
  MSF_MAGIC \o BE32(BigOf(2)) \o Entry(36, 2, <<115, Slash, 97>>)
    \o Entry(38, 1, <<115, Slash, 98>>) \o <<1, 2, 3>>
ArcOdd ==
  MSF_MAGIC \o BE32(BigOf(2)) \o Entry(36, 1, <<97, Backslash, 98>>)
    \o Entry(36, 1, <<99, 0, 100>>) \o <<4>>
ArcBigLen ==
  MSF_MAGIC \o BE32(BigOf(1)) \o BE32(BigOf(22)) \o <<255, 255, 255, 255>>
    \o <<1, 97>> \o <<5>>
ArcWrapLen ==
  MSF_MAGIC \o BE32(BigOf(1)) \o BE32(BigOf(22)) \o <<255, 240, 0, 0>>
    \o <<1, 97>> \o <<5>>
ArcNoName ==
  MSF_MAGIC \o BE32(BigOf(1)) \o BE32(BigOf(21)) \o BE32(BigOf(1)) \o <<0>> \o <<5>>
ArcCut ==
  MSF_MAGIC \o BE32(BigOf(2)) \o Entry(34, 1, <<97>>)

Archives == {ArcEmpty, ArcShort, ArcMagicOnly, ArcBadMagic, ArcTwo, ArcOdd,
             ArcBigLen, ArcWrapLen, ArcNoName, ArcCut}

\* what a read of an uninitialised uint32_t / uint8_t may yield
Uninit32 == {BZero, <<65535, 65535>>}
Uninit8 == {0, MSF_MAX_NAMELEN}

\* up to n bytes of the stream from position pos on
ReadN(stream, pos, n) == RBytes(RTake(RDrop(stream, pos), BigOf(n)))

\* read32be: the value, or any value when fread fell short
Read32(stream, pos) ==
  LET b == ReadN(stream, pos, 4)
  IN  IF Len(b) = 4 THEN {FromBE32(b)} ELSE Uninit32

\* read8
Read8(stream, pos) ==
  LET b == ReadN(stream, pos, 1)
  IN  IF Len(b) = 1 THEN {b[1]} ELSE Uninit8

\* the stream position after an fread that asked for n bytes at pos
Advance(stream, pos, n) == BAdd(pos, BigOf(Len(ReadN(stream, pos, n))))

\* fread(msf.magic, 8, 1, f) into the zeroed header
ReadMagic(stream) ==
  LET b == ReadN(stream, BZero, 8)
  IN  b \o [k \in 1..(8 - Len(b)) |-> 0]

\* a comparison one byte short
MagicOk_SevenBytes(m) == SubSeq(m, 1, 7) = SubSeq(MSF_MAGIC, 1, 7)

\* memcmp(msf.magic, MSF_MAGIC, sizeof(msf.magic)) == 0
MagicOk(m) == m = MSF_MAGIC

\* ent[i].namelen > MSF_MAX_NAMELEN: clamp
ClampName(n) == IF n > MSF_MAX_NAMELEN THEN MSF_MAX_NAMELEN ELSE n

\* a table loop that stops after the first entry
TableDone_AfterFirst(i, n) == i >= 1 \/ ~BLt(BigOf(i), n)

\* the table loop's exit condition, !(i < msf.num_files)
TableDone(i, n) == ~BLt(BigOf(i), n)

----------------------------------------------------------------------------
(* Observations and the invocation log. *)

NoObs ==
  [fault |-> FALSE, scanfail |-> FALSE, completed |-> FALSE, ub |-> FALSE,
   assertfail |-> FALSE, datatouch |-> FALSE, tblreads |-> 0,
   lastread |-> <<>>, mk |-> <<>>, startempty |-> FALSE, badmagic |-> FALSE,
   lateadd |-> FALSE, before |-> <<>>, dir |-> <<>>]

Summary(code, o) == [cmd |-> cmd, exit |-> code, obs |-> o, tree |-> src]

\* the command sequences considered
Plans == {<<"usage">>, <<"pack", "unpack">>, <<"unpack", "unpack">>}

Init ==
  /\ plan \in Plans
  /\ src \in (IF plan[1] = "pack" THEN Trees ELSE {TreeEmpty})
  /\ archive \in (IF plan[1] = "unpack" THEN {RFromBytes(a) : a \in Archives} ELSE {<<>>})
  /\ ndebug = FALSE
  /\ dirs = {}
  /\ files = {}
  /\ pc = "idle"
  /\ cmd = "none"
  /\ ret = 0
  /\ exitcode = 0
  /\ stack = <<>>
  /\ fcount = 0
  /\ ent = <<>>
  /\ datastart = BZero
  /\ curofs = BZero
  /\ idx = 0
  /\ buflen = BZero
  /\ bufnull = TRUE
  /\ num_files = BZero
  /\ fpos = BZero
  /\ obs = NoObs
  /\ log = <<>>

fsvars == <<src, dirs, files>>
packlocals == <<stack, fcount, ent, datastart, curofs, idx, buflen, bufnull, num_files>>

\* the invocation ends with status `code`
Exit(code, o) ==
  /\ pc' = "idle"
  /\ exitcode' = code
  /\ obs' = o
  /\ log' = Append(log, Summary(code, o))

----------------------------------------------------------------------------
(* main *)

\* argc < 4: usage, return -1
MainUsage ==
  /\ pc = "idle" /\ plan # <<>> /\ Head(plan) = "usage"
  /\ plan' = Tail(plan)
  /\ cmd' = "usage"
  /\ pc' = "idle"
  /\ exitcode' = -1
  /\ obs' = NoObs
  /\ log' = Append(log, [cmd |-> "usage", exit |-> -1, obs |-> NoObs, tree |-> src])
  /\ UNCHANGED <<fsvars, ndebug, archive, ret, packlocals, fpos>>

\* fopen(msf_path) fails: return -1
MainOpenFail ==
  /\ pc = "idle" /\ plan # <<>> /\ Head(plan) \in {"pack", "unpack"}
  /\ plan' = Tail(plan)
  /\ cmd' = Head(plan)
  /\ log' = Append(log, [cmd |-> Head(plan), exit |-> -1,
                         obs |-> [NoObs EXCEPT !.fault = TRUE], tree |-> src])
  /\ pc' = "idle"
  /\ exitcode' = -1
  /\ obs' = [NoObs EXCEPT !.fault = TRUE]
  /\ UNCHANGED <<fsvars, ndebug, archive, ret, packlocals, fpos>>

\* pack: fopen(msf_path, "wb") truncates the file; msf_pack's locals are set up
MainPack ==
  /\ pc = "idle" /\ plan # <<>> /\ Head(plan) = "pack"
  /\ plan' = Tail(plan)
  /\ cmd' = "pack"
  /\ ndebug' \in BOOLEAN
  /\ archive' = <<>>
  /\ pc' = "pack"
  /\ ret' = -1
  /\ buflen' = BZero
  /\ bufnull' = TRUE
  /\ datastart' = BigOf(HeaderSize)
  /\ curofs' = BZero
  /\ ent' = <<>>
  /\ fcount' = 0
  /\ idx' = 0
  /\ stack' = <<>>
  /\ num_files' = BZero
  /\ obs' = [NoObs EXCEPT !.dir = SrcDir]
  /\ UNCHANGED <<fsvars, exitcode, fpos, log>>

----------------------------------------------------------------------------
(* msf_walk *)

Top == stack[Len(stack)]

\* `return v` from the innermost msf_walk: the caller assigns it to fcount,
\* msf_pack to msf.num_files
WalkReturns(v) ==
  /\ stack' = SubSeq(stack, 1, Len(stack) - 1)
  /\ fcount' = v
  /\ IF Len(stack) = 1
     THEN pc' = "walked" /\ num_files' = BigOf(v)
     ELSE pc' = pc /\ num_files' = num_files

\* the loop goes on to the next directory entry
WalkNext(d) ==
  stack' = [stack EXCEPT ![Len(stack)].todo = @ \ {d}]

\* msf_walk(dirpath, ...) called by msf_pack: opendir of the root
PackWalkRoot ==
  /\ pc = "pack"
  /\ \E ok \in BOOLEAN :
       IF ok
       THEN /\ stack' = <<[dirpath |-> SrcDir, todo |-> Listing(src, SrcDir)]>>
            /\ pc' = "walk"
            /\ UNCHANGED <<num_files, obs>>
       ELSE /\ pc' = "walked"
            /\ num_files' = BZero
            /\ obs' = [obs EXCEPT !.fault = TRUE, !.scanfail = TRUE]
            /\ UNCHANGED stack
  /\ UNCHANGED <<fsvars, archive, plan, ndebug, cmd, ret, exitcode, fcount, ent, datastart,
                 curofs, idx, buflen, bufnull, fpos, log>>

\* d_name[0] == '.': continue
WalkHidden ==
  /\ pc = "walk"
  /\ \E d \in Top.todo :
       /\ d[1] = Dot
       /\ WalkNext(d)
  /\ UNCHANGED <<fsvars, archive, pc, plan, ndebug, cmd, ret, exitcode, fcount, ent, datastart,
                 curofs, idx, buflen, bufnull, num_files, fpos, obs, log>>

\* stat(path) < 0: return 0
WalkStatFail ==
  /\ pc = "walk"
  /\ \E d \in Top.todo :
       /\ d[1] # Dot
       /\ WalkReturns(0)
       /\ obs' = [obs EXCEPT !.scanfail = TRUE,
                             !.fault = @ \/ Lookup(src, JoinPath(Top.dirpath, d)) # {}]
  /\ UNCHANGED <<fsvars, archive, plan, ndebug, cmd, ret, exitcode, ent, datastart,
                 curofs, idx, buflen, bufnull, fpos, log>>

\* S_ISDIR: recurse; the callee's opendir succeeds
WalkSubdir ==
  /\ pc = "walk"
  /\ \E d \in Top.todo :
       LET path == JoinPath(Top.dirpath, d)
       IN  /\ d[1] # Dot
           /\ \E n \in Lookup(src, path) : n.kind = "dir"
           /\ stack' = Append([stack EXCEPT ![Len(stack)].todo = @ \ {d}],
                              [dirpath |-> path, todo |-> Listing(src, path)])
  /\ UNCHANGED <<fsvars, archive, pc, plan, ndebug, cmd, ret, exitcode, fcount, ent, datastart,
                 curofs, idx, buflen, bufnull, num_files, fpos, obs, log>>

\* S_ISDIR: recurse; the callee's opendir fails and it returns 0, which the
\* caller stores in fcount before going on with its loop
WalkSubdirFail ==
  /\ pc = "walk"
  /\ \E d \in Top.todo :
       LET path == JoinPath(Top.dirpath, d)
       IN  /\ d[1] # Dot
           /\ \E n \in Lookup(src, path) : n.kind = "dir"
           /\ WalkNext(d)
  /\ fcount' = 0
  /\ obs' = [obs EXCEPT !.fault = TRUE, !.scanfail = TRUE]
  /\ UNCHANGED <<fsvars, archive, pc, plan, ndebug, cmd, ret, exitcode, ent, datastart,
                 curofs, idx, buflen, bufnull, num_files, fpos, log>>

\* S_ISREG: the table grows by one entry
WalkFile ==
  /\ pc = "walk"
  /\ \E d \in Top.todo :
       LET path == JoinPath(Top.dirpath, d)
       IN  /\ d[1] # Dot
           /\ \E n \in Lookup(src, path) :
                /\ n.kind = "reg"
                /\ LET e == WalkEntry(path, Len(SrcDir) + 1, RLen(n.data))
                   IN  /\ ent' = SubSeq(ent, 1, fcount) \o <<e>>
                       /\ datastart' = Add32(datastart, TableShare(e))
           /\ WalkNext(d)
  /\ fcount' = fcount + 1
  /\ obs' = [obs EXCEPT !.lateadd = @ \/ obs.scanfail]
  /\ UNCHANGED <<fsvars, archive, pc, plan, ndebug, cmd, ret, exitcode,
                 curofs, idx, buflen, bufnull, num_files, fpos, log>>

\* S_ISREG, but realloc of the table fails: return 0
WalkAllocFail ==
  /\ pc = "walk"
  /\ \E d \in Top.todo :
       LET path == JoinPath(Top.dirpath, d)
       IN  /\ d[1] # Dot
           /\ \E n \in Lookup(src, path) : n.kind = "reg"
           /\ WalkReturns(0)
  /\ ent' = <<>>
  /\ obs' = [obs EXCEPT !.fault = TRUE]
  /\ UNCHANGED <<fsvars, archive, plan, ndebug, cmd, ret, exitcode, datastart,
                 curofs, idx, buflen, bufnull, fpos, log>>

\* neither a directory nor a regular file: nothing happens
WalkOther ==
  /\ pc = "walk"
  /\ \E d \in Top.todo :
       LET path == JoinPath(Top.dirpath, d)
       IN  /\ d[1] # Dot
           /\ \E n \in Lookup(src, path) : n.kind = "other"
           /\ WalkNext(d)
  /\ UNCHANGED <<fsvars, archive, pc, plan, ndebug, cmd, ret, exitcode, fcount, ent, datastart,
                 curofs, idx, buflen, bufnull, num_files, fpos, obs, log>>

\* readdir returns NULL: closedir, return fcount
WalkDone ==
  /\ pc = "walk"
  /\ Top.todo = {}
  /\ WalkReturns(fcount)
  /\ UNCHANGED <<fsvars, archive, plan, ndebug, cmd, ret, exitcode, ent, datastart,
                 curofs, idx, buflen, bufnull, fpos, obs, log>>

----------------------------------------------------------------------------
(* msf_pack *)

\* msf.num_files == 0: goto _end
PackNothing ==
  /\ pc = "walked"
  /\ num_files = BZero
  /\ pc' = "pend"
  /\ UNCHANGED <<fsvars, archive, plan, ndebug, cmd, ret, exitcode, packlocals, fpos, obs, log>>

\* write header: the magic and the big-endian count
PackHeader ==
  /\ pc = "walked"
  /\ num_files # BZero
  /\ archive' = RCat(archive, RFromBytes(MSF_MAGIC \o BE32(num_files)))
  /\ curofs' = datastart
  /\ idx' = 0
  /\ pc' = "table"
  /\ UNCHANGED <<fsvars, plan, ndebug, cmd, ret, exitcode, stack, fcount, ent, datastart,
                 buflen, bufnull, num_files, fpos, obs, log>>

\* write file table: one entry
PackTable ==
  /\ pc = "table"
  /\ BLt(BigOf(idx), num_files)
  /\ LET e == [ent[idx + 1] EXCEPT !.ofs = curofs]
     IN  /\ ent' = [ent EXCEPT ![idx + 1] = e]
         /\ archive' = RCat(archive, RFromBytes(EntryBytes(e)))
         /\ curofs' = NextOfs(curofs, e.len)
  /\ idx' = idx + 1
  /\ UNCHANGED <<fsvars, pc, plan, ndebug, cmd, ret, exitcode, stack, fcount, datastart,
                 buflen, bufnull, num_files, fpos, obs, log>>

\* assert(datastart == ftell(f)) holds, or is compiled out
PackAssertPass ==
  /\ pc = "table"
  /\ ~BLt(BigOf(idx), num_files)
  /\ datastart = RLen(archive) \/ ndebug
  /\ obs' = [obs EXCEPT !.assertfail = (datastart # RLen(archive))]
  /\ idx' = 0
  /\ pc' = "data"
  /\ UNCHANGED <<fsvars, archive, plan, ndebug, cmd, ret, exitcode, stack, fcount, ent, datastart,
                 curofs, buflen, bufnull, num_files, fpos, log>>

\* assert(datastart == ftell(f)) fails: abort()
PackAssertAbort ==
  /\ pc = "table"
  /\ ~BLt(BigOf(idx), num_files)
  /\ datastart # RLen(archive) /\ ~ndebug
  /\ Exit(134, [obs EXCEPT !.assertfail = TRUE])
  /\ UNCHANGED <<fsvars, archive, plan, ndebug, cmd, ret, packlocals, fpos>>

\* the staging buffer must grow and realloc fails: goto _end
PackGrowFail ==
  /\ pc = "data"
  /\ BLt(BigOf(idx), num_files)
  /\ NeedGrow(ent[idx + 1].len, buflen)
  /\ buflen' = GrowTo(ent[idx + 1].len)
  /\ bufnull' = TRUE
  /\ obs' = [obs EXCEPT !.fault = TRUE]
  /\ pc' = "pend"
  /\ UNCHANGED <<fsvars, archive, plan, ndebug, cmd, ret, exitcode, stack, fcount, ent, datastart,
                 curofs, idx, num_files, fpos, log>>

\* the capacity after the `ensure copy buffer is large enough` step
Grown(len, cap) == IF NeedGrow(len, cap) THEN GrowTo(len) ELSE cap

\* fopen(path, "rb") fails: goto _end
PackOpenFail ==
  /\ pc = "data"
  /\ BLt(BigOf(idx), num_files)
  /\ buflen' = Grown(ent[idx + 1].len, buflen)
  /\ bufnull' = (bufnull /\ ~NeedGrow(ent[idx + 1].len, buflen))
  /\ obs' = [obs EXCEPT !.fault =
                @ \/ Lookup(src, JoinPath(SrcDir, CStr(ent[idx + 1].name))) # {}]
  /\ pc' = "pend"
  /\ UNCHANGED <<fsvars, archive, plan, ndebug, cmd, ret, exitcode, stack, fcount, ent, datastart,
                 curofs, idx, num_files, fpos, log>>

\* the file is read into the buffer and written to the archive; a transfer
\* of more bytes than the buffer holds is undefined, and may crash the process
PackCopy ==
  /\ pc = "data"
  /\ BLt(BigOf(idx), num_files)
  /\ LET e == ent[idx + 1]
         cap == Grown(e.len, buflen)
     IN  \E n \in Lookup(src, JoinPath(SrcDir, CStr(e.name))) :
           LET got == IF n.kind = "reg" THEN BMin(e.len, RLen(n.data)) ELSE BZero
               bytes == IF n.kind = "reg" THEN RTake(n.data, e.len) ELSE <<>>
               over == BLt(cap, e.len)
           IN  /\ buflen' = cap
               /\ bufnull' = (bufnull /\ ~NeedGrow(e.len, buflen))
               /\ \E crash \in {FALSE, over} :
                    IF crash
                    THEN /\ Exit(139, [obs EXCEPT !.ub = TRUE, !.lastread = <<e.len, cap>>])
                         /\ UNCHANGED <<archive, idx>>
                    ELSE /\ archive' = RCat(archive, RCat(bytes, Stale(BSub(e.len, got))))
                         /\ idx' = idx + 1
                         /\ obs' = [obs EXCEPT !.ub = @ \/ over, !.lastread = <<e.len, cap>>]
                         /\ UNCHANGED <<pc, exitcode, log>>
  /\ UNCHANGED <<fsvars, plan, ndebug, cmd, ret, stack, fcount, ent, datastart,
                 curofs, num_files, fpos>>

\* the write loop ends and control falls through to _end
PackDone ==
  /\ pc = "data"
  /\ ~BLt(BigOf(idx), num_files)
  /\ obs' = [obs EXCEPT !.completed = TRUE]
  /\ pc' = "pend"
  /\ UNCHANGED <<fsvars, archive, plan, ndebug, cmd, ret, exitcode, packlocals, fpos, log>>

\* _end: return ret; main returns it
PackEnd ==
  /\ pc = "pend"
  /\ Exit(ret, obs)
  /\ UNCHANGED <<fsvars, archive, plan, ndebug, cmd, ret, packlocals, fpos>>

----------------------------------------------------------------------------
(* msf_unpack *)

\* unpack: fopen(msf_path, "rb"); msf_unpack's locals are set up
MainUnpack ==
  /\ pc = "idle" /\ plan # <<>> /\ Head(plan) = "unpack"
  /\ plan' = Tail(plan)
  /\ cmd' = "unpack"
  /\ pc' = "unpack"
  /\ ret' = -1
  /\ buflen' = BZero
  /\ bufnull' = TRUE
  /\ ent' = <<>>
  /\ idx' = 0
  /\ num_files' = BZero
  /\ fpos' = BZero
  /\ \E d \in DstDirs :
       obs' = [NoObs EXCEPT !.dir = d, !.startempty = (dirs = {} /\ files = {}),
                            !.before = <<dirs, files>>]
  /\ UNCHANGED <<fsvars, ndebug, archive, exitcode, stack, fcount, datastart, curofs, log>>

\* the magic does not match: goto _end
UnpackBadMagic ==
  /\ pc = "unpack"
  /\ ~MagicOk(ReadMagic(archive))
  /\ fpos' = Advance(archive, BZero, 8)
  /\ obs' = [obs EXCEPT !.badmagic = TRUE]
  /\ pc' = "uend"
  /\ UNCHANGED <<fsvars, archive, plan, ndebug, cmd, ret, exitcode, packlocals, log>>

\* the magic matches, num_files is read and the table allocated
UnpackHeader ==
  /\ pc = "unpack"
  /\ MagicOk(ReadMagic(archive))
  /\ \E n \in Read32(archive, BigOf(8)) :
       /\ BLe(n, BigOf(MaxEntries))
       /\ num_files' = n
  /\ fpos' = Advance(archive, BigOf(8), 4)
  /\ idx' = 0
  /\ pc' = "utable"
  /\ UNCHANGED <<fsvars, archive, plan, ndebug, cmd, ret, exitcode, stack, fcount, ent, datastart,
                 curofs, buflen, bufnull, obs, log>>

\* the magic matches, but calloc of the table returns NULL: goto _end
UnpackAllocFail ==
  /\ pc = "unpack"
  /\ MagicOk(ReadMagic(archive))
  /\ \E n \in Read32(archive, BigOf(8)) : num_files' = n
  /\ fpos' = Advance(archive, BigOf(8), 4)
  /\ obs' = [obs EXCEPT !.fault = TRUE]
  /\ pc' = "uend"
  /\ UNCHANGED <<fsvars, archive, plan, ndebug, cmd, ret, exitcode, stack, fcount, ent, datastart,
                 curofs, idx, buflen, bufnull, log>>

\* read one file header: offset, length, name length, name
UnpackEntry ==
  /\ pc = "utable"
  /\ ~TableDone(idx, num_files)
  /\ LET p1 == Advance(archive, fpos, 4)
         p2 == Advance(archive, p1, 4)
         p3 == Advance(archive, p2, 1)
     IN  \E o \in Read32(archive, fpos), l \in Read32(archive, p1),
            nl \in Read8(archive, p2) :
           LET c == ClampName(nl)
           IN  /\ ent' = Append(ent, [ofs |-> o, len |-> l, namelen |-> c,
                                      name |-> ReadN(archive, p3, c)])
               /\ fpos' = Advance(archive, p3, c)
  /\ idx' = idx + 1
  /\ obs' = [obs EXCEPT !.tblreads = @ + 1]
  /\ UNCHANGED <<fsvars, archive, pc, plan, ndebug, cmd, ret, exitcode, stack, fcount, datastart,
                 curofs, buflen, bufnull, num_files, log>>

\* every file header has been read
UnpackTableEnd ==
  /\ pc = "utable"
  /\ TableDone(idx, num_files)
  /\ idx' = 0
  /\ pc' = "udata"
  /\ UNCHANGED <<fsvars, archive, plan, ndebug, cmd, ret, exitcode, stack, fcount, ent, datastart,
                 curofs, buflen, bufnull, num_files, fpos, obs, log>>

\* the staging buffer must grow and realloc fails: goto _end
UnpackGrowFail ==
  /\ pc = "udata"
  /\ BLt(BigOf(idx), num_files)
  /\ NeedGrow(ent[idx + 1].len, buflen)
  /\ buflen' = GrowTo(ent[idx + 1].len)
  /\ bufnull' = TRUE
  /\ obs' = [obs EXCEPT !.fault = TRUE]
  /\ pc' = "uend"
  /\ UNCHANGED <<fsvars, archive, plan, ndebug, cmd, ret, exitcode, stack, fcount, ent, datastart,
                 curofs, idx, num_files, fpos, log>>

\* one entry is extracted: buffer, path, mkpath, fseek, fread, fopen, fwrite.
\* The fopen may fail (goto _end); a transfer of more bytes than the buffer
\* holds is undefined, and may crash the process before or after the output
\* file was created.
UnpackExtract ==
  /\ pc = "udata"
  /\ BLt(BigOf(idx), num_files)
  /\ LET e == ent[idx + 1]
         cap == Grown(e.len, buflen)
         path == JoinPath(obs.dir, CStr(e.name))
         mk == MkPath(path, dirs, files)
         rest == RDrop(archive, e.ofs)
         got == BMin(e.len, RLen(rest))
         data == RCat(RTake(rest, e.len), Stale(BSub(e.len, got)))
         over == BLt(cap, e.len)
         o == [obs EXCEPT !.datatouch = TRUE, !.lastread = <<e.len, cap>>,
                          !.mk = <<path, mk.ret, dirs, mk.dirs>>, !.ub = @ \/ over]
     IN  /\ buflen' = cap
         /\ bufnull' = (bufnull /\ ~NeedGrow(e.len, buflen))
         /\ dirs' = mk.dirs
         /\ fpos' = BAdd(e.ofs, got)
         /\ \E how \in {"copy", "nofile"} \cup (IF over THEN {"crash", "crashw"} ELSE {}) :
              CASE how = "copy" ->
                     /\ CanCreate(path, mk.dirs)
                     /\ files' = WriteFile(files, path, data)
                     /\ idx' = idx + 1
                     /\ obs' = o
                     /\ UNCHANGED <<pc, exitcode, log>>
                [] how = "nofile" ->
                     /\ pc' = "uend"
                     /\ obs' = [o EXCEPT !.fault = @ \/ CanCreate(path, mk.dirs)]
                     /\ UNCHANGED <<files, idx, exitcode, log>>
                [] how = "crash" ->
                     /\ Exit(139, o)
                     /\ UNCHANGED <<files, idx>>
                [] how = "crashw" ->
                     /\ CanCreate(path, mk.dirs)
                     /\ files' = WriteFile(files, path, <<>>)
                     /\ Exit(139, o)
                     /\ UNCHANGED idx
  /\ UNCHANGED <<src, archive, plan, ndebug, cmd, ret, stack, fcount, ent, datastart,
                 curofs, num_files>>

\* the extraction loop ends: ret = 0
UnpackDone ==
  /\ pc = "udata"
  /\ ~BLt(BigOf(idx), num_files)
  /\ ret' = 0
  /\ obs' = [obs EXCEPT !.completed = TRUE]
  /\ pc' = "uend"
  /\ UNCHANGED <<fsvars, archive, plan, ndebug, cmd, exitcode, packlocals, fpos, log>>

\* _end: return ret; main returns it
UnpackEnd ==
  /\ pc = "uend"
  /\ Exit(ret, obs)
  /\ UNCHANGED <<fsvars, archive, plan, ndebug, cmd, ret, packlocals, fpos>>

Next ==
  \/ MainUsage \/ MainOpenFail \/ MainPack \/ MainUnpack
  \/ PackWalkRoot \/ WalkHidden \/ WalkStatFail \/ WalkSubdir \/ WalkSubdirFail
  \/ WalkFile \/ WalkAllocFail \/ WalkOther \/ WalkDone
  \/ PackNothing \/ PackHeader \/ PackTable \/ PackAssertPass \/ PackAssertAbort
  \/ PackGrowFail \/ PackOpenFail \/ PackCopy \/ PackDone \/ PackEnd
  \/ UnpackBadMagic \/ UnpackHeader \/ UnpackAllocFail \/ UnpackEntry \/ UnpackTableEnd
  \/ UnpackGrowFail \/ UnpackExtract \/ UnpackDone \/ UnpackEnd

Spec == Init /\ [][Next]_vars

----------------------------------------------------------------------------
(* Properties. *)

Regular(tree) == {n \in tree : n.kind = "reg"}

\* what a faithful extraction of the tree under dir consists of
Expected(tree, dir) ==
  {[path |-> dir \o <<Slash>> \o n.name, data |-> n.data] : n \in Regular(tree)}

\* a pack followed by an unpack into an empty destination, both over, with
\* no opendir, stat, fopen or allocation failing in either
RoundTripOver ==
  /\ pc = "idle"
  /\ Len(log) = 2
  /\ log[1].cmd = "pack" /\ log[2].cmd = "unpack"
  /\ ~log[1].obs.fault /\ ~log[2].obs.fault
  /\ log[2].obs.startempty

NamesFit == \A n \in Regular(src) : Len(n.name) <= MSF_MAX_NAMELEN

NoHidden(name) ==
  /\ name[1] # Dot
  /\ \A k \in 1..(Len(name) - 1) : name[k] = Slash => name[k + 1] # Dot

Packable(n, dir) ==
  /\ NoHidden(n.name)
  /\ \A k \in 1..Len(n.name) : n.name[k] # Backslash
  /\ Len(dir) + 1 + Len(n.name) <= MSF_MAX_NAMELEN * 2
  /\ BLt(RLen(n.data), <<65520, 0>>)

\* C1 as claimed: a tree of regular files with paths of at most 255 bytes is
\* reproduced exactly (same paths, same contents) by pack followed by unpack
\* into an empty destination, whatever the order of enumeration.
C1_RoundTripAnyTree ==
  (RoundTripOver /\ NamesFit) => files = Expected(src, log[2].obs.dir)

\* C1 as amended: the tree is reproduced exactly when, besides, no path
\* component begins with a dot, no path holds a backslash, the directory
\* argument plus path fits the 510-byte path buffer, every file is smaller
\* than 2^32 - 2^20 bytes and the archive is smaller than 2^32 bytes.
C1_RoundTrip ==
  (/\ RoundTripOver
   /\ NamesFit
   /\ \A n \in Regular(src) : Packable(n, log[2].obs.dir)
   /\ BLt(RLen(archive), <<65536, 0>>))
  => files = Expected(src, log[2].obs.dir)

\* a round trip of a tree with a subdirectory and several files took place
C1_Witness ==
  /\ RoundTripOver
  /\ src = TreeBasic
  /\ files = Expected(src, DstShort)
  /\ log[2].exit = 0

\* msf_pack or msf_unpack has been entered by the current invocation
InPack == cmd = "pack" /\ obs.dir # <<>>
InUnpack == cmd = "unpack" /\ obs.dir # <<>>

\* C2 (as claimed): each operation returns 0 exactly when it ran to
\* completion and non-zero exactly when it aborted, and main exits with
\* that status; a pack that read and wrote every file returns 0.  (Runs
\* with undefined behaviour are left aside.)
C2_ExitStatus ==
  \A i \in 1..Len(log) :
    (log[i].cmd \in {"pack", "unpack"} /\ log[i].obs.dir # <<>> /\ ~log[i].obs.ub)
    => (log[i].exit = 0 <=> log[i].obs.completed)

\* C3 (as claimed): once a directory could not be opened or a child could
\* not be stat'ed, the scan adds no further entry, nothing is written to the
\* archive stream and the pack ends in failure.
C3_ScanFailureFatal ==
  (InPack /\ obs.scanfail)
  => /\ ~obs.lateadd
     /\ archive = <<>>
     /\ (pc = "idle" => exitcode # 0)

\* C4 (as claimed): every entry the scanner produces carries the full
\* relative path of a file, or, for a path longer than 255 bytes, its first
\* 255 bytes; never the path cut to its length modulo 256.
C4_NameLength ==
  InPack =>
    \A i \in 1..Len(ent) :
      /\ ent[i].namelen = Len(ent[i].name)
      /\ \E n \in Regular(src) :
           \/ ent[i].name = n.name
           \/ /\ Len(n.name) > MSF_MAX_NAMELEN
              /\ ent[i].name = SubSeq(n.name, 1, MSF_MAX_NAMELEN)

\* the first eight bytes of the stream, fewer if it is shorter
Leading8 == RBytes(RTake(archive, BigOf(8)))

\* C5: when the first 8 bytes of the stream are not the magic (a shorter
\* stream included), msf_unpack reads no count and no table entry, creates no
\* directory, writes no file, and returns failure.
C5_HeaderRejection ==
  (InUnpack /\ Leading8 # MSF_MAGIC)
  => /\ pc \in {"unpack", "uend", "idle"}
     /\ obs.tblreads = 0
     /\ ~obs.datatouch
     /\ BLe(fpos, BigOf(8))
     /\ <<dirs, files>> = obs.before
     /\ (pc = "idle" => exitcode = -1)

\* an unpack of a stream that carries a wrong magic before a well-formed
\* table has been rejected
C5_Witness ==
  /\ InUnpack
  /\ pc = "idle"
  /\ archive = RFromBytes(ArcBadMagic)
  /\ obs.badmagic
  /\ exitcode = -1
  /\ files = {}

\* the number of table entries msf_pack has written so far
Tabled ==
  IF InPack /\ pc = "table" THEN idx
  ELSE IF InPack /\ pc = "data" THEN Small(num_files)
  ELSE 0

\* C6 (as claimed): in the table msf_pack writes, each entry's offset is the
\* previous entry's offset plus its length, so offsets never decrease, the
\* data ranges follow one another without overlap, and a zero-length entry
\* has the offset of the entry after it.
C6_OffsetChain ==
  \A i \in 1..(Tabled - 1) :
    /\ ent[i + 1].ofs = BAdd(ent[i].ofs, ent[i].len)
    /\ BLe(ent[i].ofs, ent[i + 1].ofs)

\* C7 (as claimed): when the table has been written, the data-region start
\* the scanner accumulated equals the position of the output stream, so the
\* assertion of msf_pack holds, failed subdirectories and stats included.
C7_DataStart ==
  (InPack /\ pc = "table" /\ TableDone(idx, num_files))
  => datastart = RLen(archive)

\* C8: whenever msf_unpack has touched file data (buffer, mkpath, seek, data
\* read, output file), it has read exactly num_files table entries: all of
\* them before the first extraction, none after.
C8_TableBeforeData ==
  (InUnpack /\ obs.datatouch) => BigOf(obs.tblreads) = num_files

\* an unpack of a two-entry archive has extracted both entries
C8_Witness ==
  /\ InUnpack
  /\ obs.datatouch
  /\ obs.completed
  /\ num_files = BigOf(2)
  /\ obs.tblreads = 2

\* the directory prefixes mkpath tries for a path
Prefixes(path) == {SubSeq(path, 1, k - 1) : k \in {j \in 1..Len(path) : IsSep(path[j])}}

\* C9 (as claimed): for a path with a separator, mkpath returns 0 whenever
\* one of the directory components was created by the call or was there
\* before it.
C9_MkPathResult ==
  obs.mk # <<>> =>
    LET path == obs.mk[1]
        r == obs.mk[2]
        was == obs.mk[3]
        is == obs.mk[4]
    IN  (\E q \in Prefixes(path) : q \in was \/ q \in is \ was) => r = 0

\* C10 (as claimed): whenever an entry's bytes are read into the staging
\* buffer, the buffer's capacity is at least the entry's length.
C10_BufferCapacity ==
  obs.lastread # <<>> => BLe(obs.lastread[1], obs.lastread[2])

====
